---------------------------- MODULE Spec2Model ----------------------------
(***************************************************************************)
(* Model of the HNA application's catalog search (src/main.py) and of the  *)
(* dynamic-schema ingestion of ancillary examinations                      *)
(* (src/models_penunjang.py).                                              *)
(*                                                                         *)
(* Text is a sequence of one-character strings, so that lower-casing,      *)
(* substring search, normalisation and JSON encoding are computed on       *)
(* characters.  A missing value (pandas NaN) is the one-element sequence   *)
(* NaN, which is no text over the alphabet.                                *)
(***************************************************************************)
EXTENDS Integers, Sequences, FiniteSets, TLC

VARIABLES
    \* ---- advanced_similarity_search(df, query, column, threshold, limit)
    sDf,          \* the working set: sequence of the searched column's values
    sQuery,       \* the query text
    sThreshold,   \* threshold argument
    sLimit,       \* limit argument
    sPc,          \* "call" | "fuzzy" | "returned"
    sScorer,      \* the library scorer's answer per normalised choice
    sResult,      \* returned frame: sequence of row labels of sDf
    sTier,        \* which return statement produced sResult
    \* ---- render_data_page(hna_mgr)
    pDf,          \* df = hna_mgr.load_data(): sequence of rows
    pFilters,     \* the six select boxes, "Semua" or a value
    pQuery,       \* name_query
    pThreshold,   \* st.session_state.similarity_threshold
    pMode,        \* st.session_state.search_mode
    pPc,          \* "off" | "run" | "searching" | "done"
    pLabels,      \* row labels of filtered_df before the name search
    pResult,      \* row labels of filtered_df when the page displays
    pShown,       \* what the name search showed through st.success/info/warning
    \* ---- the store (MySQL tables), committed state
    rows,         \* pemeriksaan_penunjang, in insertion order
    registry,     \* pemeriksaan_columns_metadata, in insertion order
    \* ---- each SQLAlchemy session's open transaction (uncommitted writes)
    txRows,
    txRegistry,
    \* ---- PemeriksaanPenunjang.upload_excel(file, mitra, user), per session
    pc,           \* "idle" | "register" | "rows"
    columns,      \* df.columns of the call
    mitra,        \* mitra argument
    user,         \* user argument
    colPos,       \* position of the registration loop in additional_cols
    nRead,        \* rows df.iterrows() has yielded so far
    row,          \* the row iterrows() yielded last
    success_count,
    msgs,         \* what the call showed through st.error/warning/success/info
    calls,        \* upload_excel calls started so far
    \* ---- PemeriksaanPenunjang.load_data()
    loaded        \* the frame load_data returned last

pageVars == <<pDf, pFilters, pQuery, pThreshold, pMode, pPc, pLabels, pResult,
              pShown>>

searchVars == <<sDf, sQuery, sThreshold, sLimit, sPc, sScorer, sResult, sTier,
                pageVars>>

storeVars == <<rows, registry, txRows, txRegistry>>

callVars == <<pc, columns, mitra, user, colPos, nRead, row, success_count,
              msgs, calls>>

ingestVars == <<storeVars, callVars, loaded>>

vars == <<searchVars, ingestVars>>

-----------------------------------------------------------------------------
(* Bounds of the model *)

MaxRows == 3
MaxCalls == 2
MaxFileRows == 2
MaxConcurrentFileRows == 1
MaxPageRows == 2
MaxActiveFilters == 2

(* Program constants *)

DefaultThreshold == 85
DefaultLimit == 20

-----------------------------------------------------------------------------
(* Text helpers *)

NaN == <<"NaN">>

IsNa(x) == x = NaN

Range(s) == {s[i] : i \in DOMAIN s}

\* str.lower() on one character of the alphabet
LowerChar(c) ==
    IF c = "A" THEN "a" ELSE IF c = "B" THEN "b" ELSE c

\* str.lower()
Lower(s) == [i \in DOMAIN s |-> LowerChar(s[i])]

\* \s of the regular expressions
IsSpace(c) == c = " "

\* \w of the regular expressions
IsWord(c) == c \in {"a", "b", "A", "B", "_"}

RECURSIVE LStrip(_)
LStrip(s) ==
    IF s = <<>> THEN <<>>
    ELSE IF IsSpace(Head(s)) THEN LStrip(Tail(s)) ELSE s

RECURSIVE RStrip(_)
RStrip(s) ==
    IF s = <<>> THEN <<>>
    ELSE IF IsSpace(s[Len(s)]) THEN RStrip(SubSeq(s, 1, Len(s) - 1)) ELSE s

\* str.strip()
Strip(s) == RStrip(LStrip(s))

\* re.sub(r'[^\w\s]', ' ', text)
SubSpecial(s) ==
    [i \in DOMAIN s |-> IF IsWord(s[i]) \/ IsSpace(s[i]) THEN s[i] ELSE " "]

\* re.sub(r'\s+', ' ', text)
RECURSIVE CollapseSpaces(_)
CollapseSpaces(s) ==
    IF s = <<>> THEN <<>>
    ELSE IF IsSpace(Head(s))
         THEN <<" ">> \o CollapseSpaces(LStrip(Tail(s)))
         ELSE <<Head(s)>> \o CollapseSpaces(Tail(s))

\* preprocess_text(text)
preprocess_text(text) ==
    IF IsNa(text) THEN <<>>
    ELSE CollapseSpaces(SubSpecial(Strip(Lower(text))))

-----------------------------------------------------------------------------
(* Inputs of the search *)

\* values of the searched column: "ab", "Ab", "aab", "a.b", "a b", NaN
Names ==
    { <<"a", "b">>, <<"A", "b">>, <<"a", "a", "b">>, <<"a", ".", "b">>,
      <<"a", " ", "b">>, NaN }

\* queries: "", "ab", "AB", "a.b", "bb"
Queries ==
    { <<>>, <<"a", "b">>, <<"A", "B">>, <<"a", ".", "b">>, <<"b", "b">> }

Thresholds == {60, DefaultThreshold, 99}

Limits == {1, 2, DefaultLimit}

\* scores the library scorer may give (0..100 scale)
Scores == {45, 70, 90}

RECURSIVE SeqsUpTo(_, _)
SeqsUpTo(S, n) ==
    IF n = 0 THEN {<<>>}
    ELSE LET shorter == SeqsUpTo(S, n - 1)
         IN  shorter \cup {Append(q, x) : q \in shorter, x \in S}

-----------------------------------------------------------------------------
(* advanced_similarity_search, src/main.py:53-87 *)

\* the row labels of a frame
Idx(df) == [i \in 1..Len(df) |-> i]

ShortCircuitDfOnly(df, query) == df = <<>>

\* not query or df.empty
ShortCircuit(df, query) == query = <<>> \/ df = <<>>

RECURSIVE Unique(_)
Unique(s) ==
    IF s = <<>> THEN <<>>
    ELSE LET rest == Unique(SubSeq(s, 1, Len(s) - 1))
             x == s[Len(s)]
         IN  IF x \in Range(rest) THEN rest ELSE Append(rest, x)

\* df[column].dropna().unique().tolist()
Choices(df) == Unique(SelectSeq(df, LAMBDA x : ~IsNa(x)))

ExactMatchesCaseSensitive(df, query) ==
    SelectSeq(Idx(df), LAMBDA i : ~IsNa(df[i]) /\ df[i] = query)

\* df[df[column].str.lower() == query.lower()]
ExactMatches(df, query) ==
    SelectSeq(Idx(df), LAMBDA i : ~IsNa(df[i]) /\ Lower(df[i]) = Lower(query))

\* re.search(pat, s) for a pattern over the alphabet: "." matches any
\* character, every other character of the alphabet matches itself
RegexSearch(pat, s) ==
    \E k \in 0..(Len(s) - Len(pat)) :
        \A j \in 1..Len(pat) : pat[j] = "." \/ pat[j] = s[k + j]

ContainsMatchesNaTrue(df, query) ==
    SelectSeq(Idx(df),
              LAMBDA i : IsNa(df[i]) \/ RegexSearch(Lower(query), Lower(df[i])))

\* df[df[column].str.lower().str.contains(query.lower(), na=False)]
ContainsMatches(df, query) ==
    SelectSeq(Idx(df),
              LAMBDA i : ~IsNa(df[i]) /\ RegexSearch(Lower(query), Lower(df[i])))

\* [preprocess_text(choice) for choice in choices]
ChoicesProcessed(df) ==
    LET c == Choices(df) IN [i \in DOMAIN c |-> preprocess_text(c[i])]

\* sorted(pairs, key=score, reverse=True): stable, as heapq.nlargest is
RECURSIVE SortByScoreDesc(_)
SortByScoreDesc(pairs) ==
    IF pairs = <<>> THEN <<>>
    ELSE LET best == CHOOSE i \in DOMAIN pairs :
                         /\ \A j \in DOMAIN pairs : pairs[j][2] <= pairs[i][2]
                         /\ \A j \in 1..(i - 1) : pairs[j][2] < pairs[i][2]
             rest == SubSeq(pairs, 1, best - 1)
                         \o SubSeq(pairs, best + 1, Len(pairs))
         IN  <<pairs[best]>> \o SortByScoreDesc(rest)

\* process.extract(query_processed, choices_processed, limit=limit): the
\* (choice, score) pairs of the limit best scores, best first
Extract(processed, scorer, limit) ==
    LET pairs == [i \in DOMAIN processed |->
                     <<processed[i], scorer[processed[i]]>>]
        sorted == SortByScoreDesc(pairs)
    IN  SubSeq(sorted, 1, IF limit < Len(sorted) THEN limit ELSE Len(sorted))

\* lines 79-82: zip(choices_processed, [r[1] for r in results], choices)
MatchedOriginalNames(df, scorer, threshold, limit) ==
    LET choices == Choices(df)
        results == Extract(ChoicesProcessed(df), scorer, limit)
    IN  { choices[i] : i \in { k \in DOMAIN results : results[k][2] >= threshold } }

\* df[df[column].isin(matched_original_names)], or the empty frame
FuzzyMatches(df, scorer, threshold, limit) ==
    LET matched == MatchedOriginalNames(df, scorer, threshold, limit)
    IN  SelectSeq(Idx(df), LAMBDA i : df[i] \in matched)

NoScorer == <<>>

Returned(frame, tier) ==
    /\ sPc' = "returned"
    /\ sResult' = frame
    /\ sTier' = tier
    /\ UNCHANGED <<sDf, sQuery, sThreshold, sLimit>>
    /\ UNCHANGED <<pageVars, ingestVars>>

\* lines 55-56
ReturnInput ==
    /\ sPc = "call"
    /\ ShortCircuit(sDf, sQuery)
    /\ Returned(Idx(sDf), "input")
    /\ UNCHANGED sScorer

\* lines 58-62
ReturnNoChoices ==
    /\ sPc = "call"
    /\ ~ShortCircuit(sDf, sQuery)
    /\ Choices(sDf) = <<>>
    /\ Returned(<<>>, "nochoices")
    /\ UNCHANGED sScorer

\* lines 64-67
ReturnExact ==
    /\ sPc = "call"
    /\ ~ShortCircuit(sDf, sQuery)
    /\ Choices(sDf) # <<>>
    /\ ExactMatches(sDf, sQuery) # <<>>
    /\ Returned(ExactMatches(sDf, sQuery), "exact")
    /\ UNCHANGED sScorer

\* lines 69-72
ReturnContains ==
    /\ sPc = "call"
    /\ ~ShortCircuit(sDf, sQuery)
    /\ Choices(sDf) # <<>>
    /\ ExactMatches(sDf, sQuery) = <<>>
    /\ ContainsMatches(sDf, sQuery) # <<>>
    /\ Returned(ContainsMatches(sDf, sQuery), "contains")
    /\ UNCHANGED sScorer

\* lines 74-76: the scorer answers for every normalised choice
ScoreChoices ==
    /\ sPc = "call"
    /\ ~ShortCircuit(sDf, sQuery)
    /\ Choices(sDf) # <<>>
    /\ ExactMatches(sDf, sQuery) = <<>>
    /\ ContainsMatches(sDf, sQuery) = <<>>
    /\ \E sc \in [Range(ChoicesProcessed(sDf)) -> Scores] : sScorer' = sc
    /\ sPc' = "fuzzy"
    /\ UNCHANGED <<sDf, sQuery, sThreshold, sLimit, sResult, sTier>>
    /\ UNCHANGED <<pageVars, ingestVars>>

\* lines 78-87
ReturnFuzzy ==
    /\ sPc = "fuzzy"
    /\ LET frame == FuzzyMatches(sDf, sScorer, sThreshold, sLimit)
       IN  Returned(frame, IF frame = <<>> THEN "none" ELSE "fuzzy")
    /\ UNCHANGED sScorer

-----------------------------------------------------------------------------
(* Inputs of the ingestion: the frame pd.read_excel returns *)

KODE == <<"K", "O", "D", "E">>
DESKRIPSI == <<"D", "E", "S", "K", "R", "I", "P", "S", "I">>
GROUP_TRANSAKSI ==
    <<"G", "R", "O", "U", "P", " ", "T", "R", "A", "N", "S", "A", "K", "S", "I">>
SATUAN == <<"S", "A", "T", "U", "A", "N">>
KELAS == <<"K", "E", "L", "A", "S">>
TARIF == <<"T", "A", "R", "I", "F">>

\* models_penunjang.py:15
expected_base_cols == <<KODE, DESKRIPSI, GROUP_TRANSAKSI, SATUAN>>

\* df.columns of the files uploaded: the template, the template with one
\* and with two additional columns, and two headers that miss required
\* columns (SATUAN; KODE and GROUP TRANSAKSI)
Headers ==
    { expected_base_cols,
      expected_base_cols \o <<KELAS>>,
      expected_base_cols \o <<KELAS, TARIF>>,
      <<KODE, DESKRIPSI, GROUP_TRANSAKSI, KELAS>>,
      <<DESKRIPSI, SATUAN>> }

\* a numeric cell holding n
Num(n) == <<"int", n>>

IsNum(cell) == Len(cell) = 2 /\ cell[1] = "int"

\* the cells a column may hold: text, a number, or NaN for an empty cell
CellsOf(col) ==
    IF col = KODE THEN {NaN, <<"K", "1">>}
    ELSE IF col = DESKRIPSI THEN {NaN, <<"D", "1">>}
    ELSE IF col = GROUP_TRANSAKSI THEN {<<"G">>}
    ELSE IF col = SATUAN THEN {<<"S">>}
    ELSE IF col = KELAS THEN {NaN, <<"A">>}
    ELSE {Num(12), <<"\"", "\\">>}

\* the rows df.iterrows() may yield for a header, cell i under column i
RECURSIVE RowsOf(_)
RowsOf(cols) ==
    IF cols = <<>> THEN {<<>>}
    ELSE {<<c>> \o r : c \in CellsOf(Head(cols)), r \in RowsOf(Tail(cols))}

Users == {"u1", "u2"}

Mitras == {"m1"}

Sessions == {"s1", "s2"}

\* the sessions that upload in this specification
Uploaders == {"s1"}

-----------------------------------------------------------------------------
(* PemeriksaanPenunjang.upload_excel, src/models_penunjang.py:10-78 *)

\* row[col]
Cell(cols, r, col) == r[CHOOSE i \in DOMAIN cols : cols[i] = col]

MissingColumnsKodeOnly(cols) ==
    SelectSeq(<<KODE>>, LAMBDA c : c \notin Range(cols))

\* lines 18-19: the required columns not in df.columns, in the loop's order
MissingColumns(cols) ==
    SelectSeq(expected_base_cols, LAMBDA c : c \notin Range(cols))

\* line 24
additional_cols(cols) ==
    SelectSeq(cols, LAMBDA c : c \notin Range(expected_base_cols))

IsSkippedKodeOnly(cols, r) == IsNa(Cell(cols, r, KODE))

\* line 47
IsSkipped(cols, r) ==
    IsNa(Cell(cols, r, KODE)) \/ IsNa(Cell(cols, r, DESKRIPSI))

DigitChar(d) == <<"0", "1", "2", "3", "4", "5", "6", "7", "8", "9">>[d + 1]

RECURSIVE Digits(_)
Digits(n) ==
    IF n < 10 THEN <<DigitChar(n)>>
    ELSE Digits(n \div 10) \o <<DigitChar(n % 10)>>

\* str(row[col])
Str(cell) ==
    IF IsNa(cell) THEN <<"n", "a", "n">>
    ELSE IF IsNum(cell) THEN Digits(cell[2])
    ELSE cell

PayloadKeepingMissing(cols, r) ==
    LET ac == additional_cols(cols)
    IN  [i \in DOMAIN ac |-> <<ac[i], Str(Cell(cols, r, ac[i]))>>]

\* lines 51-54: the dict additional_data, as its items in insertion order
Payload(cols, r) ==
    LET present == SelectSeq(additional_cols(cols),
                             LAMBDA c : ~IsNa(Cell(cols, r, c)))
    IN  [i \in DOMAIN present |->
            <<present[i], Str(Cell(cols, r, present[i]))>>]

\* json: a string's characters with quote and backslash escaped
RECURSIVE Escape(_)
Escape(s) ==
    IF s = <<>> THEN <<>>
    ELSE IF Head(s) \in {"\"", "\\"}
         THEN <<"\\", Head(s)>> \o Escape(Tail(s))
         ELSE <<Head(s)>> \o Escape(Tail(s))

JsonString(s) == <<"\"">> \o Escape(s) \o <<"\"">>

RECURSIVE JsonMembers(_)
JsonMembers(items) ==
    IF items = <<>> THEN <<>>
    ELSE LET member == JsonString(items[1][1]) \o <<":", " ">>
                           \o JsonString(items[1][2])
         IN  IF Len(items) = 1 THEN member
             ELSE member \o <<",", " ">> \o JsonMembers(Tail(items))

\* json.dumps(additional_data)
JsonDumps(items) == <<"{">> \o JsonMembers(items) \o <<"}">>

RECURSIVE SkipSpaces(_, _)
SkipSpaces(t, i) == IF t[i] = " " THEN SkipSpaces(t, i + 1) ELSE i

\* the string literal whose opening quote is at i - 1: its value and the
\* position after its closing quote
RECURSIVE ScanString(_, _, _)
ScanString(t, i, acc) ==
    IF t[i] = "\"" THEN [val |-> acc, next |-> i + 1]
    ELSE IF t[i] = "\\" THEN ScanString(t, i + 2, Append(acc, t[i + 1]))
    ELSE ScanString(t, i + 1, Append(acc, t[i]))

\* the members from position i on, up to the closing brace
RECURSIVE ScanMembers(_, _, _)
ScanMembers(t, i, acc) ==
    LET key == ScanString(t, i + 1, <<>>)
        colon == SkipSpaces(t, key.next)
        val == ScanString(t, SkipSpaces(t, colon + 1) + 1, <<>>)
        after == SkipSpaces(t, val.next)
        items == Append(acc, <<key.val, val.val>>)
    IN  IF t[after] = "," THEN ScanMembers(t, SkipSpaces(t, after + 1), items)
        ELSE items

\* the dict of a sequence of items: a later item replaces an earlier one
DictOf(items) ==
    [k \in {items[i][1] : i \in DOMAIN items} |->
        items[CHOOSE i \in DOMAIN items :
                 /\ items[i][1] = k
                 /\ \A j \in DOMAIN items : items[j][1] = k => j <= i][2]]

\* json.loads(x) if x else {}
JsonLoads(x) ==
    IF x = <<>> THEN DictOf(<<>>)
    ELSE LET first == SkipSpaces(x, 2)
         IN  IF x[first] = "}" THEN DictOf(<<>>)
             ELSE DictOf(ScanMembers(x, first, <<>>))

\* lines 62-70: the record the INSERT writes; src is history, not a column:
\* the header and the cells the record was built from
Record(s, cols, r) ==
    [ mitra |-> mitra[s],
      kode |-> Cell(cols, r, KODE),
      deskripsi |-> Cell(cols, r, DESKRIPSI),
      group_transaksi |-> Cell(cols, r, GROUP_TRANSAKSI),
      satuan |-> Cell(cols, r, SATUAN),
      additional_data |-> JsonDumps(Payload(cols, r)),
      uploaded_by |-> user[s],
      src |-> [columns |-> cols, cells |-> r] ]

\* the registry as session s reads it: committed entries and its own writes
RegistryView(s) == registry \o txRegistry[s]

\* column_name is the unique key of pemeriksaan_columns_metadata
DuplicateKey(view, name) == \E i \in DOMAIN view : view[i].column_name = name

InsertIgnoreOwnWritesOnly(s, col) ==
    IF DuplicateKey(txRegistry[s], col) THEN txRegistry[s]
    ELSE Append(txRegistry[s],
                [column_name |-> col, display_name |-> col, created_by |-> user[s]])

\* lines 29-37: INSERT IGNORE INTO pemeriksaan_columns_metadata; the
\* session's pending registry writes after the statement
InsertIgnore(s, col) ==
    IF DuplicateKey(RegistryView(s), col) THEN txRegistry[s]
    ELSE Append(txRegistry[s],
                [column_name |-> col, display_name |-> col, created_by |-> user[s]])

\* the unique key under concurrency: another session's uncommitted entry for
\* the name holds the index record locked, and the statement waits for that
\* session's commit
LockedByOther(s, name) ==
    \E t \in Sessions \ {s} : DuplicateKey(txRegistry[t], name)

\* st.error / st.warning / st.success / st.info
Msg(level, text, col, count) ==
    [level |-> level, text |-> text, col |-> col, count |-> count]

\* self.session.commit()
Commit(s) ==
    /\ rows' = rows \o txRows[s]
    /\ registry' = registry \o txRegistry[s]
    /\ txRows' = [txRows EXCEPT ![s] = <<>>]
    /\ txRegistry' = [txRegistry EXCEPT ![s] = <<>>]

\* line 12 raises: lines 77-78
UploadUnreadable(s) ==
    /\ pc[s] = "idle"
    /\ calls < MaxCalls
    /\ calls' = calls + 1
    /\ \E m \in Mitras, u \in Users :
          /\ mitra' = [mitra EXCEPT ![s] = m]
          /\ user' = [user EXCEPT ![s] = u]
    /\ columns' = [columns EXCEPT ![s] = <<>>]
    /\ nRead' = [nRead EXCEPT ![s] = 0]
    /\ success_count' = [success_count EXCEPT ![s] = 0]
    /\ msgs' = [msgs EXCEPT ![s] = <<Msg("error", "upload_error", <<>>, 0)>>]
    /\ loaded' = <<>>
    /\ UNCHANGED <<pc, colPos, row, storeVars, searchVars>>

\* lines 12-21: a required column is missing
UploadRejected(s) ==
    /\ pc[s] = "idle"
    /\ calls < MaxCalls
    /\ calls' = calls + 1
    /\ \E m \in Mitras, u \in Users :
          /\ mitra' = [mitra EXCEPT ![s] = m]
          /\ user' = [user EXCEPT ![s] = u]
    /\ \E h \in Headers :
          /\ MissingColumns(h) # <<>>
          /\ columns' = [columns EXCEPT ![s] = h]
          /\ msgs' = [msgs EXCEPT ![s] =
                 <<Msg("error", "column_not_found", MissingColumns(h)[1], 0)>>]
    /\ nRead' = [nRead EXCEPT ![s] = 0]
    /\ success_count' = [success_count EXCEPT ![s] = 0]
    /\ loaded' = <<>>
    /\ UNCHANGED <<pc, colPos, row, storeVars, searchVars>>

\* lines 12-24: the header holds every required column
UploadAccepted(s) ==
    /\ pc[s] = "idle"
    /\ calls < MaxCalls
    /\ calls' = calls + 1
    /\ \E m \in Mitras, u \in Users :
          /\ mitra' = [mitra EXCEPT ![s] = m]
          /\ user' = [user EXCEPT ![s] = u]
    /\ \E h \in Headers :
          /\ MissingColumns(h) = <<>>
          /\ columns' = [columns EXCEPT ![s] = h]
    /\ msgs' = [msgs EXCEPT ![s] = <<>>]
    /\ nRead' = [nRead EXCEPT ![s] = 0]
    /\ success_count' = [success_count EXCEPT ![s] = 0]
    /\ colPos' = [colPos EXCEPT ![s] = 1]
    /\ pc' = [pc EXCEPT ![s] = "register"]
    /\ loaded' = <<>>
    /\ UNCHANGED <<row, storeVars, searchVars>>

\* lines 27-37: one registration that the store accepts
RegisterColumn(s) ==
    /\ pc[s] = "register"
    /\ colPos[s] <= Len(additional_cols(columns[s]))
    /\ ~LockedByOther(s, additional_cols(columns[s])[colPos[s]])
    /\ txRegistry' = [txRegistry EXCEPT ![s] =
                         InsertIgnore(s, additional_cols(columns[s])[colPos[s]])]
    /\ colPos' = [colPos EXCEPT ![s] = colPos[s] + 1]
    /\ UNCHANGED <<rows, registry, txRows, pc, columns, mitra, user, nRead, row,
                   success_count, msgs, calls, loaded, searchVars>>

RegisterColumnAborts(s) ==
    /\ pc[s] = "register"
    /\ colPos[s] <= Len(additional_cols(columns[s]))
    /\ msgs' = [msgs EXCEPT ![s] =
                   Append(msgs[s], Msg("error", "upload_error", <<>>, 0))]
    /\ pc' = [pc EXCEPT ![s] = "idle"]
    /\ colPos' = [colPos EXCEPT ![s] = colPos[s] + 1]
    /\ UNCHANGED <<storeVars, columns, mitra, user, nRead, row,
                   success_count, calls, loaded, searchVars>>

\* lines 27-39: one registration that raises (a lock wait that timed out
\* included); the loop warns and goes on
RegisterColumnFails(s) ==
    /\ pc[s] = "register"
    /\ colPos[s] <= Len(additional_cols(columns[s]))
    /\ msgs' = [msgs EXCEPT ![s] =
                   Append(msgs[s], Msg("warning", "column_warning",
                                       additional_cols(columns[s])[colPos[s]], 0))]
    /\ colPos' = [colPos EXCEPT ![s] = colPos[s] + 1]
    /\ UNCHANGED <<storeVars, pc, columns, mitra, user, nRead, row,
                   success_count, calls, loaded, searchVars>>

CommitRegistryDeferred(s) ==
    /\ pc[s] = "register"
    /\ colPos[s] > Len(additional_cols(columns[s]))
    /\ UNCHANGED storeVars
    /\ success_count' = [success_count EXCEPT ![s] = 0]
    /\ pc' = [pc EXCEPT ![s] = "rows"]
    /\ UNCHANGED <<columns, mitra, user, colPos, nRead, row, msgs, calls,
                   loaded, searchVars>>

\* lines 41-44
CommitRegistry(s) ==
    /\ pc[s] = "register"
    /\ colPos[s] > Len(additional_cols(columns[s]))
    /\ Commit(s)
    /\ success_count' = [success_count EXCEPT ![s] = 0]
    /\ pc' = [pc EXCEPT ![s] = "rows"]
    /\ UNCHANGED <<columns, mitra, user, colPos, nRead, row, msgs, calls,
                   loaded, searchVars>>

\* lines 45-48: a row without code or description
SkipRow(s) ==
    /\ pc[s] = "rows"
    /\ nRead[s] < MaxFileRows
    /\ \E r \in RowsOf(columns[s]) :
          /\ IsSkipped(columns[s], r)
          /\ row' = [row EXCEPT ![s] = r]
    /\ nRead' = [nRead EXCEPT ![s] = nRead[s] + 1]
    /\ UNCHANGED <<storeVars, pc, columns, mitra, user, colPos, success_count,
                   msgs, calls, loaded, searchVars>>

\* lines 45-71: a row is inserted
InsertRow(s) ==
    /\ pc[s] = "rows"
    /\ nRead[s] < MaxFileRows
    /\ \E r \in RowsOf(columns[s]) :
          /\ ~IsSkipped(columns[s], r)
          /\ row' = [row EXCEPT ![s] = r]
          /\ txRows' = [txRows EXCEPT ![s] =
                           Append(txRows[s], Record(s, columns[s], r))]
    /\ nRead' = [nRead EXCEPT ![s] = nRead[s] + 1]
    /\ success_count' = [success_count EXCEPT ![s] = success_count[s] + 1]
    /\ UNCHANGED <<rows, registry, txRegistry, pc, columns, mitra, user, colPos,
                   msgs, calls, loaded, searchVars>>

AbortRollingBack(s) ==
    /\ msgs' = [msgs EXCEPT ![s] =
                   Append(msgs[s], Msg("error", "upload_error", <<>>, 0))]
    /\ pc' = [pc EXCEPT ![s] = "idle"]
    /\ txRows' = [txRows EXCEPT ![s] = <<>>]
    /\ txRegistry' = [txRegistry EXCEPT ![s] = <<>>]
    /\ UNCHANGED <<rows, registry>>

\* lines 77-78: the handler of the outer try reports and returns; the
\* session is neither committed nor rolled back
Abort(s) ==
    /\ msgs' = [msgs EXCEPT ![s] =
                   Append(msgs[s], Msg("error", "upload_error", <<>>, 0))]
    /\ pc' = [pc EXCEPT ![s] = "idle"]
    /\ UNCHANGED storeVars

\* lines 45-70, 77-78: the INSERT of a row raises
InsertRowFails(s) ==
    /\ pc[s] = "rows"
    /\ nRead[s] < MaxFileRows
    /\ \E r \in RowsOf(columns[s]) : ~IsSkipped(columns[s], r)
    /\ row' = [row EXCEPT ![s] = <<>>]
    /\ nRead' = [nRead EXCEPT ![s] = nRead[s] + 1]
    /\ Abort(s)
    /\ UNCHANGED <<columns, mitra, user, colPos, success_count, calls, loaded,
                   searchVars>>

\* lines 73-75: the rows are exhausted
CommitRows(s) ==
    /\ pc[s] = "rows"
    /\ Commit(s)
    /\ msgs' = [msgs EXCEPT ![s] =
                   msgs[s] \o <<Msg("success", "uploaded", <<>>, success_count[s]),
                                Msg("info", "columns_detected", <<>>,
                                    Len(additional_cols(columns[s])))>>]
    /\ pc' = [pc EXCEPT ![s] = "idle"]
    /\ row' = [row EXCEPT ![s] = <<>>]
    /\ UNCHANGED <<columns, mitra, user, colPos, nRead, success_count,
                   calls, loaded, searchVars>>

\* one loaded row: the table's columns with additional_data parsed
LoadedRow(rec) == [rec EXCEPT !.additional_data = JsonLoads(rec.additional_data)]

\* lines 80-90: SELECT * ... ORDER BY uploaded_at DESC over the engine, which
\* reads committed rows only; the newest row first
LoadFrame(table) ==
    [i \in 1..Len(table) |-> LoadedRow(table[Len(table) + 1 - i])]

LoadData(s) ==
    /\ pc[s] = "idle"
    /\ loaded' = LoadFrame(rows)
    /\ UNCHANGED <<storeVars, callVars, searchVars>>

IngestInit ==
    /\ rows = <<>>
    /\ registry = <<>>
    /\ txRows = [s \in Sessions |-> <<>>]
    /\ txRegistry = [s \in Sessions |-> <<>>]
    /\ pc = [s \in Sessions |-> "idle"]
    /\ columns = [s \in Sessions |-> <<>>]
    /\ mitra = [s \in Sessions |-> "m1"]
    /\ user = [s \in Sessions |-> "u1"]
    /\ colPos = [s \in Sessions |-> 1]
    /\ nRead = [s \in Sessions |-> 0]
    /\ row = [s \in Sessions |-> <<>>]
    /\ success_count = [s \in Sessions |-> 0]
    /\ msgs = [s \in Sessions |-> <<>>]
    /\ calls = 0
    /\ loaded = <<>>

\* no search is running
SearchIdle ==
    /\ sDf = <<>>
    /\ sQuery = <<>>
    /\ sThreshold = DefaultThreshold
    /\ sLimit = DefaultLimit
    /\ sPc = "off"
    /\ sScorer = NoScorer
    /\ sResult = <<>>
    /\ sTier = "pending"

\* no data page is running
PageIdle ==
    /\ pDf = <<>>
    /\ pFilters = <<>>
    /\ pQuery = <<>>
    /\ pThreshold = DefaultThreshold
    /\ pMode = "Auto (Exact + Similarity)"
    /\ pPc = "off"
    /\ pLabels = <<>>
    /\ pResult = <<>>
    /\ pShown = "nothing"

Init == IngestInit /\ SearchIdle /\ PageIdle

Next ==
    \E s \in Uploaders :
        \/ UploadUnreadable(s)
        \/ UploadRejected(s)
        \/ UploadAccepted(s)
        \/ RegisterColumn(s)
        \/ RegisterColumnFails(s)
        \/ CommitRegistry(s)
        \/ SkipRow(s)
        \/ InsertRow(s)
        \/ InsertRowFails(s)
        \/ CommitRows(s)
        \/ LoadData(s)

Spec == Init /\ [][Next]_vars

-----------------------------------------------------------------------------
(* Concurrent uploads: every script run has its own session (main.py:25),  *)
(* and the runs of two users interleave statement by statement             *)

\* the file of a concurrent upload has rows left to read
HasRowsLeft(s) == nRead[s] < MaxConcurrentFileRows

ConcurrentNext ==
    \E s \in Sessions :
        \/ UploadUnreadable(s)
        \/ UploadRejected(s)
        \/ UploadAccepted(s)
        \/ RegisterColumn(s)
        \/ RegisterColumnFails(s)
        \/ CommitRegistry(s)
        \/ HasRowsLeft(s) /\ SkipRow(s)
        \/ HasRowsLeft(s) /\ InsertRow(s)
        \/ HasRowsLeft(s) /\ InsertRowFails(s)
        \/ CommitRows(s)
        \/ LoadData(s)

SpecConcurrent == Init /\ [][ConcurrentNext]_vars

-----------------------------------------------------------------------------
(* The search alone *)

SearchInit ==
    /\ sDf \in SeqsUpTo(Names, MaxRows)
    /\ sQuery \in Queries
    /\ sThreshold \in Thresholds
    /\ sLimit \in Limits
    /\ sPc = "call"
    /\ sScorer = NoScorer
    /\ sResult = <<>>
    /\ sTier = "pending"
    /\ IngestInit
    /\ PageIdle

SearchNext ==
    \/ ReturnInput
    \/ ReturnNoChoices
    \/ ReturnExact
    \/ ReturnContains
    \/ ScoreChoices
    \/ ReturnFuzzy

SpecSearch == SearchInit /\ [][SearchNext]_vars

-----------------------------------------------------------------------------
(* render_data_page, src/main.py:132-224 *)

\* the filter columns, in the order lines 182-193 apply them
Dimensions ==
    << "region", "mitra", "group_transaksi", "satuan", "periode_bulan",
       "periode_tahun" >>

Semua == "Semua"

\* values of nama_barang on the page: "ab", "aab", NaN
PageNames == { <<"a", "b">>, <<"a", "a", "b">>, NaN }

\* the rows load_data may return
PageRowSet ==
    [ region : {"r1", "r2"},
      mitra : {"m1", "m2"},
      group_transaksi : {"g1"},
      satuan : {"s1"},
      periode_bulan : {"b1"},
      periode_tahun : {"t1"},
      nama_barang : PageNames ]

\* name_query: "", "AB", "bb"
PageQueries == { <<>>, <<"A", "B">>, <<"b", "b">> }

PageThresholds == {60, DefaultThreshold}

SearchModes ==
    { "Hanya Exact Match", "Hanya Similarity", "Auto (Exact + Similarity)" }

\* lines 143-159: ["Semua"] + sorted(df[col].unique().tolist())
Options(df, col) == {Semua} \cup {df[i][col] : i \in DOMAIN df}

\* what the six select boxes may hold over df
FilterChoices(df) ==
    { f \in [ region : Options(df, "region"),
              mitra : Options(df, "mitra"),
              group_transaksi : Options(df, "group_transaksi"),
              satuan : Options(df, "satuan"),
              periode_bulan : Options(df, "periode_bulan"),
              periode_tahun : Options(df, "periode_tahun") ] :
        Cardinality({k \in DOMAIN Dimensions : f[Dimensions[k]] # Semua})
            <= MaxActiveFilters }

\* lines 182-193 from the k-th filter on: labels are the row labels kept so far
RECURSIVE ApplyFilters(_, _, _, _)
ApplyFilters(df, labels, f, k) ==
    IF k > Len(Dimensions) THEN labels
    ELSE LET col == Dimensions[k]
             kept == IF f[col] # Semua
                     THEN SelectSeq(labels, LAMBDA i : df[i][col] = f[col])
                     ELSE labels
         IN  ApplyFilters(df, kept, f, k + 1)

\* lines 180-193: filtered_df = df.copy(), then the six filters
Filtered(df, f) == ApplyFilters(df, Idx(df), f, 1)

\* filtered_df['nama_barang'] over the labels of filtered_df
NameColumn(df, labels) == [k \in DOMAIN labels |-> df[labels[k]].nama_barang]

\* a frame selected by positions of filtered_df, as labels of df
Relabel(labels, positions) == [k \in DOMAIN positions |-> labels[positions[k]]]

ExactStepSubstring(df, labels, query) ==
    Relabel(labels, ContainsMatches(NameColumn(df, labels), query))

\* lines 201, 210:
\* filtered_df[filtered_df['nama_barang'].str.lower() == name_query.lower()]
ExactStep(df, labels, query) ==
    Relabel(labels, ExactMatches(NameColumn(df, labels), query))

\* the page returned: filtered_df as displayed from line 227 on
Displayed(labels, result, shown) ==
    /\ pPc' = "done"
    /\ pLabels' = labels
    /\ pResult' = result
    /\ pShown' = shown
    /\ UNCHANGED <<pDf, pFilters, pQuery, pThreshold, pMode>>
    /\ UNCHANGED ingestVars

\* lines 134-138: no data
PageEmpty ==
    /\ pPc = "run"
    /\ pDf = <<>>
    /\ Displayed(<<>>, <<>>, "no_data")
    /\ UNCHANGED <<sDf, sQuery, sThreshold, sLimit, sPc, sScorer, sResult, sTier>>

\* lines 180-197, 223: no name query
PageNoQuery ==
    /\ pPc = "run"
    /\ pDf # <<>>
    /\ pQuery = <<>>
    /\ LET labels == Filtered(pDf, pFilters)
       IN  Displayed(labels, labels, "nothing")
    /\ UNCHANGED <<sDf, sQuery, sThreshold, sLimit, sPc, sScorer, sResult, sTier>>

\* lines 180-201, 223-224: exact match only
PageExactOnly ==
    /\ pPc = "run"
    /\ pDf # <<>>
    /\ pQuery # <<>>
    /\ pMode = "Hanya Exact Match"
    /\ LET labels == Filtered(pDf, pFilters)
       IN  Displayed(labels, ExactStep(pDf, labels, pQuery), "nothing")
    /\ UNCHANGED <<sDf, sQuery, sThreshold, sLimit, sPc, sScorer, sResult, sTier>>

\* lines 180-197, 208-213, 223-224: auto mode, the exact step found rows
PageAutoExact ==
    /\ pPc = "run"
    /\ pDf # <<>>
    /\ pQuery # <<>>
    /\ pMode \notin {"Hanya Exact Match", "Hanya Similarity"}
    /\ LET labels == Filtered(pDf, pFilters)
       IN  /\ ExactStep(pDf, labels, pQuery) # <<>>
           /\ Displayed(labels, ExactStep(pDf, labels, pQuery), "exact_match")
    /\ UNCHANGED <<sDf, sQuery, sThreshold, sLimit, sPc, sScorer, sResult, sTier>>

\* lines 204-206, 215-217: advanced_similarity_search(filtered_df,
\* name_query, 'nama_barang', similarity_threshold) is entered
CallSearch(labels) ==
    /\ sDf' = NameColumn(pDf, labels)
    /\ sQuery' = pQuery
    /\ sThreshold' = pThreshold
    /\ sLimit' = DefaultLimit
    /\ sPc' = "call"
    /\ sScorer' = NoScorer
    /\ sResult' = <<>>
    /\ sTier' = "pending"
    /\ pPc' = "searching"
    /\ pLabels' = labels
    /\ UNCHANGED <<pDf, pFilters, pQuery, pThreshold, pMode, pResult, pShown>>
    /\ UNCHANGED ingestVars

\* lines 180-197, 202-206: similarity only
PageSimilarityOnly ==
    /\ pPc = "run"
    /\ pDf # <<>>
    /\ pQuery # <<>>
    /\ pMode = "Hanya Similarity"
    /\ CallSearch(Filtered(pDf, pFilters))

\* lines 180-197, 208-217: auto mode, the exact step found nothing
PageAutoFallback ==
    /\ pPc = "run"
    /\ pDf # <<>>
    /\ pQuery # <<>>
    /\ pMode \notin {"Hanya Exact Match", "Hanya Similarity"}
    /\ LET labels == Filtered(pDf, pFilters)
       IN  /\ ExactStep(pDf, labels, pQuery) = <<>>
           /\ CallSearch(labels)

\* lines 204-206 and 215-224: the search returned
PageTakeResult ==
    /\ pPc = "searching"
    /\ sPc = "returned"
    /\ LET result == Relabel(pLabels, sResult)
       IN  Displayed(pLabels, result,
                     IF pMode = "Hanya Similarity" THEN "nothing"
                     ELSE IF result # <<>> THEN "similarity_found"
                     ELSE "not_found")
    /\ UNCHANGED <<sDf, sQuery, sThreshold, sLimit, sPc, sScorer, sResult, sTier>>

PageInit ==
    /\ pDf \in SeqsUpTo(PageRowSet, MaxPageRows)
    /\ pFilters \in FilterChoices(pDf)
    /\ pQuery \in PageQueries
    /\ pThreshold \in PageThresholds
    /\ pMode \in SearchModes
    /\ pPc = "run"
    /\ pLabels = <<>>
    /\ pResult = <<>>
    /\ pShown = "nothing"
    /\ SearchIdle
    /\ IngestInit

PageNext ==
    \/ PageEmpty
    \/ PageNoQuery
    \/ PageExactOnly
    \/ PageAutoExact
    \/ PageSimilarityOnly
    \/ PageAutoFallback
    \/ ReturnInput
    \/ ReturnNoChoices
    \/ ReturnExact
    \/ ReturnContains
    \/ ScoreChoices
    \/ ReturnFuzzy
    \/ PageTakeResult

SpecPage == PageInit /\ [][PageNext]_vars

-----------------------------------------------------------------------------
(* Properties of the search *)

\* two characters that differ at most in case
SameLetter(x, y) ==
    x = y \/ {x, y} = {"a", "A"} \/ {x, y} = {"b", "B"}

\* case-insensitive full-string equality
EqualsIgnoringCase(v, q) ==
    /\ ~IsNa(v)
    /\ Len(v) = Len(q)
    /\ \A j \in 1..Len(q) : SameLetter(v[j], q[j])

\* q occurs in v as a literal substring, case ignored
ContainsLiterally(v, q) ==
    /\ ~IsNa(v)
    /\ \E k \in 0..(Len(v) - Len(q)) :
           \A j \in 1..Len(q) : SameLetter(v[k + j], q[j])

RowsEqualTo(df, q) == SelectSeq(Idx(df), LAMBDA i : EqualsIgnoringCase(df[i], q))

RowsContaining(df, q) == SelectSeq(Idx(df), LAMBDA i : ContainsLiterally(df[i], q))

\* C1: for a non-empty working set and a non-empty query that equals,
\* ignoring case, the value of at least one row, the search returns exactly
\* the rows whose value equals the query ignoring case, whatever threshold
\* and limit are.
C1_ExactMatchExact ==
    ( /\ sPc = "returned"
      /\ sDf # <<>>
      /\ sQuery # <<>>
      /\ RowsEqualTo(sDf, sQuery) # <<>> )
    => sResult = RowsEqualTo(sDf, sQuery)

\* an exact match differing in case was returned while a row that merely
\* contains the query was left out
C1_Witness ==
    /\ sPc = "returned"
    /\ sQuery # <<>>
    /\ \E i \in DOMAIN sDf :
           /\ i \in Range(sResult)
           /\ sDf[i] # sQuery
           /\ EqualsIgnoringCase(sDf[i], sQuery)
    /\ \E j \in DOMAIN sDf :
           /\ j \notin Range(sResult)
           /\ ContainsLiterally(sDf[j], sQuery)

\* the candidates process.extract keeps: those with fewer than limit
\* candidates ranked before them (a higher score, or the same score earlier)
AmongBest(df, scorer, limit) ==
    LET p == ChoicesProcessed(df)
    IN  { i \in DOMAIN p :
            Cardinality({ j \in DOMAIN p :
                            \/ scorer[p[j]] > scorer[p[i]]
                            \/ scorer[p[j]] = scorer[p[i]] /\ j < i }) < limit }

\* the values the fuzzy tier should retain: among the limit best and with
\* their own score at or above the threshold
RetainedByOwnScore(df, scorer, threshold, limit) ==
    LET c == Choices(df)
    IN  { c[i] : i \in { k \in AmongBest(df, scorer, limit) :
                            scorer[preprocess_text(c[k])] >= threshold } }

\* C2: in the fuzzy tier a distinct value is retained exactly when it is
\* among the limit best-scoring candidates and its own score is at or above
\* the threshold; the result is every row whose value is retained, and is
\* empty when nothing is retained.
C2_FuzzyRetainsOwnScore ==
    (sPc = "returned" /\ sTier \in {"fuzzy", "none"})
    => sResult = SelectSeq(Idx(sDf),
                    LAMBDA i : sDf[i] \in RetainedByOwnScore(sDf, sScorer,
                                                             sThreshold, sLimit))

\* C3: the tiers apply in strict order and the first non-empty tier wins:
\* the substring tier answers only when no row matches exactly, and then
\* with exactly the rows containing the query as a literal substring
\* (ignoring case); the fuzzy tier answers only when both are empty.
C3_TierOrderLiteralSubstring ==
    ( /\ sPc = "returned"
      /\ sTier \in {"exact", "contains", "fuzzy", "none"} )
    => /\ sTier = "exact" <=> RowsEqualTo(sDf, sQuery) # <<>>
       /\ sTier = "contains" <=>
              /\ RowsEqualTo(sDf, sQuery) = <<>>
              /\ RowsContaining(sDf, sQuery) # <<>>
       /\ sTier = "contains" => sResult = RowsContaining(sDf, sQuery)

\* C4: an empty query returns the working set unchanged, and an empty
\* working set yields an empty result for every query.
C4_EmptyInputs ==
    sPc = "returned"
    => /\ sQuery = <<>> => sResult = Idx(sDf)
       /\ sDf = <<>> => sResult = <<>>

\* an empty query over a working set that holds a missing value
C4_Witness ==
    /\ sPc = "returned"
    /\ sQuery = <<>>
    /\ Len(sDf) >= 2
    /\ \E i \in DOMAIN sDf : IsNa(sDf[i])
    /\ sResult = Idx(sDf)

\* C13: for a non-empty query, whatever return statement produced the
\* result, every row of the result is a row of the working set whose field
\* value is present, and when every row's field value is missing the result
\* is empty.
C13_MissingNeverMatched ==
    (sPc = "returned" /\ sQuery # <<>>)
    => /\ \A k \in DOMAIN sResult :
              /\ sResult[k] \in DOMAIN sDf
              /\ ~IsNa(sDf[sResult[k]])
       /\ (\A i \in DOMAIN sDf : IsNa(sDf[i])) => sResult = <<>>

\* the substring tier answered over a working set holding a missing value
C13_Witness ==
    /\ sPc = "returned"
    /\ sTier = "contains"
    /\ sQuery # <<>>
    /\ \E i \in DOMAIN sDf : IsNa(sDf[i])
    /\ sResult # <<>>
    /\ Len(sResult) < Len(sDf)

-----------------------------------------------------------------------------
(* Properties of the data page *)

\* what advanced_similarity_search selects from a name column, by its tier
\* order, with the scorer's answers given
SearchSelection(names, query, threshold, limit, scorer) ==
    IF ShortCircuit(names, query) THEN Idx(names)
    ELSE IF Choices(names) = <<>> THEN <<>>
    ELSE IF ExactMatches(names, query) # <<>> THEN ExactMatches(names, query)
    ELSE IF ContainsMatches(names, query) # <<>>
         THEN ContainsMatches(names, query)
    ELSE FuzzyMatches(names, scorer, threshold, limit)

\* the row satisfies every select box that is not "Semua"
SatisfiesFilters(r, f) ==
    /\ f.region # Semua => r.region = f.region
    /\ f.mitra # Semua => r.mitra = f.mitra
    /\ f.group_transaksi # Semua => r.group_transaksi = f.group_transaksi
    /\ f.satuan # Semua => r.satuan = f.satuan
    /\ f.periode_bulan # Semua => r.periode_bulan = f.periode_bulan
    /\ f.periode_tahun # Semua => r.periode_tahun = f.periode_tahun

\* C15: when the page displays after a name search in auto mode or in
\* similarity-only mode, the rows selected are those the search function
\* selects from the pre-filtered working set for the query, the threshold
\* and the scorer's answers, the same in both modes; when auto mode's own
\* exact step answered, the function would have reached its exact tier and
\* the rows are those whose name equals the query ignoring case; and in
\* every mode each selected row is a row of the working set that satisfies
\* every active dimension filter.
C15_AutoEqualsSimilarity ==
    (pPc = "done" /\ pDf # <<>>)
    => LET names == NameColumn(pDf, pLabels)
       IN  /\ (pQuery # <<>> /\ pMode # "Hanya Exact Match")
              => pResult = Relabel(pLabels,
                               SearchSelection(names, pQuery, pThreshold,
                                               DefaultLimit, sScorer))
           /\ pShown = "exact_match"
              => /\ ~ShortCircuit(names, pQuery)
                 /\ Choices(names) # <<>>
                 /\ pResult = Relabel(pLabels, RowsEqualTo(names, pQuery))
           /\ \A k \in DOMAIN pResult :
                  /\ pResult[k] \in DOMAIN pDf
                  /\ SatisfiesFilters(pDf[pResult[k]], pFilters)

\* auto mode's own exact step answered over a working set from which an
\* active region filter had removed a row
C15_Witness ==
    /\ pPc = "done"
    /\ pMode = "Auto (Exact + Similarity)"
    /\ pShown = "exact_match"
    /\ pFilters.region # Semua
    /\ Len(pLabels) < Len(pDf)
    /\ pResult # <<>>

-----------------------------------------------------------------------------
(* Properties of the ingestion *)

RequiredColumns == {KODE, DESKRIPSI, GROUP_TRANSAKSI, SATUAN}

\* C5: if a required column is absent from the header, upload_excel reports
\* an error naming a missing column and returns before any row is processed:
\* rows table, registry and the session's transaction are left unchanged;
\* and no call ever gets past validation with a required column absent.
C5_MissingColumnRejected ==
    [][ \A s \in Uploaders :
          /\ ( /\ calls' = calls + 1
               /\ pc[s] = "idle"
               /\ columns'[s] # <<>>
               /\ RequiredColumns \ Range(columns'[s]) # {} )
             => /\ pc'[s] = "idle"
                /\ nRead'[s] = 0
                /\ rows' = rows
                /\ registry' = registry
                /\ txRows' = txRows
                /\ txRegistry' = txRegistry
                /\ Len(msgs'[s]) = 1
                /\ msgs'[s][1].level = "error"
                /\ msgs'[s][1].text = "column_not_found"
                /\ msgs'[s][1].col \in RequiredColumns \ Range(columns'[s])
          /\ pc'[s] # "idle" => RequiredColumns \subseteq Range(columns'[s])
      ]_vars

\* a second upload, without SATUAN, was rejected while the store held rows
C5_Witness ==
    /\ calls = 2
    /\ pc["s1"] = "idle"
    /\ SATUAN \notin Range(columns["s1"])
    /\ KODE \in Range(columns["s1"])
    /\ msgs["s1"] = <<Msg("error", "column_not_found", SATUAN, 0)>>
    /\ rows # <<>>
    /\ registry # <<>>

\* C6: in a call that ingests without error, every row read whose KODE and
\* DESKRIPSI cells are both present adds exactly one record, after the
\* records of the rows read before it; a row with either cell missing adds
\* nothing; the final commit persists exactly the records the call
\* inserted, and the count reported is their number.
C6_OneRecordPerValidRow ==
    [][ \A s \in Uploaders :
          /\ ( /\ pc[s] = "rows"
               /\ pc'[s] = "rows"
               /\ nRead'[s] = nRead[s] + 1 )
             => /\ rows' = rows
                /\ IF /\ ~IsNa(Cell(columns[s], row'[s], KODE))
                      /\ ~IsNa(Cell(columns[s], row'[s], DESKRIPSI))
                   THEN /\ Len(txRows'[s]) = Len(txRows[s]) + 1
                        /\ SubSeq(txRows'[s], 1, Len(txRows[s])) = txRows[s]
                        /\ LET rec == txRows'[s][Len(txRows'[s])]
                           IN  /\ rec.kode = Cell(columns[s], row'[s], KODE)
                               /\ rec.deskripsi =
                                      Cell(columns[s], row'[s], DESKRIPSI)
                               /\ rec.group_transaksi =
                                      Cell(columns[s], row'[s], GROUP_TRANSAKSI)
                               /\ rec.satuan = Cell(columns[s], row'[s], SATUAN)
                               /\ rec.mitra = mitra[s]
                               /\ rec.uploaded_by = user[s]
                        /\ success_count'[s] = success_count[s] + 1
                   ELSE /\ txRows'[s] = txRows[s]
                        /\ success_count'[s] = success_count[s]
          /\ pc'[s] = "rows" => Len(txRows'[s]) = success_count'[s]
          /\ ( /\ pc[s] = "rows"
               /\ pc'[s] = "idle"
               /\ \E m \in Range(msgs'[s]) : m.level = "success" )
             => /\ rows' = rows \o txRows[s]
                /\ txRows'[s] = <<>>
                /\ \A m \in Range(msgs'[s]) :
                       m.level = "success" => m.count = Len(rows') - Len(rows)
      ]_vars

\* a call read two rows, skipped one and reported one record persisted
C6_Witness ==
    /\ pc["s1"] = "idle"
    /\ nRead["s1"] = 2
    /\ success_count["s1"] = 1
    /\ \E m \in Range(msgs["s1"]) : m.level = "success" /\ m.count = 1
    /\ Len(rows) = 1

UniqueColumnNames(t) ==
    \A i, j \in DOMAIN t : t[i].column_name = t[j].column_name => i = j

\* C7: the registry holds at most one entry per column name, and no step
\* changes or removes a committed entry: an ingestion whose additional
\* column is already registered adds nothing and leaves the entry's display
\* name and creator as they were.
C7_RegistryInsertIfAbsent ==
    [][ /\ \A s \in Sessions : UniqueColumnNames(registry' \o txRegistry'[s])
        /\ Len(registry') >= Len(registry)
        /\ \A i \in DOMAIN registry : registry'[i] = registry[i]
      ]_vars

\* a second upload by another user registered KELAS again without a warning
C7_Witness ==
    /\ calls = 2
    /\ pc["s1"] = "rows"
    /\ KELAS \in Range(columns["s1"])
    /\ msgs["s1"] = <<>>
    /\ Len(registry) = 1
    /\ registry[1].column_name = KELAS
    /\ registry[1].created_by # user["s1"]

\* C8: every key of every persisted row's additional-data payload has an
\* entry in the column registry.
C8_PayloadKeysRegistered ==
    \A i \in DOMAIN rows :
        \A k \in DOMAIN JsonLoads(rows[i].additional_data) :
            \E j \in DOMAIN registry : registry[j].column_name = k

\* the last call of s ended in the handler of a failed row insert
Aborted(s) ==
    /\ pc[s] = "idle"
    /\ nRead[s] > 0
    /\ msgs[s] # <<>>
    /\ msgs[s][Len(msgs[s])].text = "upload_error"

\* C9 as claimed: after a row insert failed, the rows of the batch inserted
\* before the failure are persisted in the store.
C9_AbortKeepsRowsPersisted ==
    \A s \in Uploaders :
        Aborted(s)
        => /\ Len(rows) >= success_count[s]
           /\ \A k \in 1..success_count[s] :
                  LET rec == rows[Len(rows) - success_count[s] + k]
                  IN  rec.uploaded_by = user[s] /\ rec.src.columns = columns[s]

\* C9 as amended: after a row insert failed the call has returned with the
\* error reported, and the rows of the batch inserted before the failure
\* are neither rolled back nor committed: they are exactly the pending
\* writes of the session's open transaction.
C9_AbortLeavesRowsPending ==
    \A s \in Uploaders :
        Aborted(s)
        => /\ msgs[s][Len(msgs[s])].level = "error"
           /\ Len(txRows[s]) = success_count[s]
           /\ \A k \in DOMAIN txRows[s] :
                  /\ txRows[s][k].uploaded_by = user[s]
                  /\ txRows[s][k].src.columns = columns[s]

\* the second row's insert failed after the first row was inserted
C9_Witness ==
    /\ Aborted("s1")
    /\ nRead["s1"] = 2
    /\ success_count["s1"] = 1
    /\ Len(txRows["s1"]) = 1
    /\ rows = <<>>

\* the payload a record built from src should carry: the additional columns
\* whose cell is present, each mapped to the cell's text
ExpectedPayload(src) ==
    LET at(c) == src.cells[CHOOSE i \in DOMAIN src.columns : src.columns[i] = c]
    IN  [c \in {c \in Range(src.columns) \ RequiredColumns : at(c) # NaN} |->
            Str(at(c))]

\* C10: the persisted payload of every ingested row maps exactly the
\* additional columns whose cell is present to the cell's text, and
\* load_data returns for every committed row a mapping equal to it.
C10_PayloadRoundTrip ==
    /\ \A s \in Sessions : \A i \in DOMAIN txRows[s] :
           JsonLoads(txRows[s][i].additional_data)
               = ExpectedPayload(txRows[s][i].src)
    /\ \A i \in DOMAIN rows :
           JsonLoads(rows[i].additional_data) = ExpectedPayload(rows[i].src)
    /\ Len(loaded) <= Len(rows)
    /\ \A i \in DOMAIN loaded :
           /\ loaded[i].src = rows[Len(loaded) + 1 - i].src
           /\ loaded[i].additional_data = ExpectedPayload(loaded[i].src)

\* load_data returned a row with KELAS = "A" and a row whose KELAS cell was
\* empty, which has no KELAS key
C10_Witness ==
    /\ \E i \in DOMAIN loaded :
           /\ KELAS \in DOMAIN loaded[i].additional_data
           /\ loaded[i].additional_data[KELAS] = <<"A">>
    /\ \E i \in DOMAIN loaded :
           /\ KELAS \in Range(loaded[i].src.columns)
           /\ TARIF \in DOMAIN loaded[i].additional_data
           /\ KELAS \notin DOMAIN loaded[i].additional_data

\* C11: within one upload_excel call the registrations are committed
\* together by one commit issued before the first row insert: a row insert
\* is issued only in the row loop, with no registration pending, and commits
\* nothing; the registry changes only in the step that leaves the
\* registration loop, which commits every pending registration at once
\* before any row was read; in the row loop the rows table changes only in
\* the step that returns, which commits every inserted row at once; and no
\* step that stays in the row loop commits anything.
C11_TwoCommitsPerCall ==
    [][ \A s \in Uploaders :
          /\ Len(txRows'[s]) > Len(txRows[s])
             => /\ pc[s] = "rows"
                /\ pc'[s] = "rows"
                /\ txRegistry[s] = <<>>
                /\ rows' = rows
                /\ registry' = registry
          /\ registry' # registry
             => /\ pc[s] = "register"
                /\ pc'[s] = "rows"
                /\ nRead[s] = 0
                /\ registry' = registry \o txRegistry[s]
                /\ txRegistry'[s] = <<>>
          /\ (pc[s] = "rows" /\ rows' # rows)
             => /\ pc'[s] = "idle"
                /\ rows' = rows \o txRows[s]
                /\ txRows'[s] = <<>>
          /\ (pc[s] = "rows" /\ pc'[s] = "rows")
             => /\ rows' = rows
                /\ registry' = registry
      ]_vars

\* a call registered KELAS and TARIF, inserted two rows and returned: the
\* registry holds both columns and the rows table both rows
C11_Witness ==
    /\ calls = 1
    /\ pc["s1"] = "idle"
    /\ Len(registry) = 2
    /\ Len(rows) = 2
    /\ success_count["s1"] = 2
    /\ txRows["s1"] = <<>>
    /\ \E m \in Range(msgs["s1"]) : m.level = "success" /\ m.count = 2

\* the number of entries table t holds for a column name
EntriesFor(t, name) ==
    Cardinality({i \in DOMAIN t : t[i].column_name = name})

\* the call showed a warning for the column
Warned(shown, name) ==
    \E m \in Range(shown) : m.level = "warning" /\ m.col = name

\* the call showed its success message
Succeeded(shown) == \E m \in Range(shown) : m.level = "success"

\* C12: in every interleaving of two sessions' uploads the registry never
\* holds two entries for one name; once an ingestion is past its registry
\* commit, every additional column it registered without a warning has
\* exactly one entry; no step of the registration loop ends the call or
\* reports an error, whatever the other session did; the returning commit
\* of each ingestion appends all the rows it inserted, whatever the table
\* already holds, and no step removes or reorders committed rows.
C12_ConcurrentRegistration ==
    [][ /\ UniqueColumnNames(registry')
        /\ \A s \in Sessions :
              /\ (pc'[s] = "rows" \/ (pc'[s] = "idle" /\ Succeeded(msgs'[s])))
                 => \A c \in Range(additional_cols(columns'[s])) :
                        ~Warned(msgs'[s], c) => EntriesFor(registry', c) = 1
              /\ pc[s] = "register"
                 => /\ pc'[s] \in {"register", "rows"}
                    /\ \A m \in Range(msgs'[s]) : m.level # "error"
              /\ (pc[s] = "rows" /\ pc'[s] = "idle" /\ Succeeded(msgs'[s]))
                 => rows' = rows \o txRows[s]
        /\ Len(rows') >= Len(rows)
        /\ SubSeq(rows', 1, Len(rows)) = rows
      ]_vars

\* both sessions are in their row loops at once, each having registered
\* KELAS without a warning in the first two calls ever made; the registry
\* holds one KELAS entry and both have inserted the same row
C12_Witness ==
    /\ calls = 2
    /\ pc["s1"] = "rows"
    /\ pc["s2"] = "rows"
    /\ msgs["s1"] = <<>>
    /\ msgs["s2"] = <<>>
    /\ KELAS \in Range(columns["s1"])
    /\ KELAS \in Range(columns["s2"])
    /\ EntriesFor(registry, KELAS) = 1
    /\ Len(txRows["s1"]) = 1
    /\ Len(txRows["s2"]) = 1
    /\ txRows["s1"][1].src = txRows["s2"][1].src

\* C14: rows become durable only through the final commit of the call that
\* inserted them: every step that adds rows to the rows table is the
\* returning commit of a call in its row loop, and it adds as many rows as
\* that call inserted; so neither commit of a later call on the session
\* persists rows an aborted call left behind.
C14_DurableOnlyByOwnCommit ==
    [][ \A s \in Uploaders :
          rows' # rows
          => /\ pc[s] = "rows"
             /\ pc'[s] = "idle"
             /\ Len(rows') = Len(rows) + success_count[s]
      ]_vars

=============================================================================
